---- MODULE Spec2Model ----
(***************************************************************************)
(* Model of the Peet Bros wind decoder (src/src/main.cpp): the two pulse   *)
(* interrupt handlers readWindSpeed / readWindDir, and the periodic decode *)
(* cycle calcWindSpeedAndDir with its plausibility checks, direction       *)
(* resolution and circular smoothing.                                      *)
(*                                                                         *)
(* `unsigned long` is 32 bits on the target.  TLC's integers stop at       *)
(* 2^31 - 1, so an unsigned 32-bit value v is held as the pair of its      *)
(* 16-bit halves <<v \div 65536, v % 65536>> and the unsigned arithmetic   *)
(* of the code (wrapping + - *, truncating /, %) is done on such pairs.    *)
(* `int` and `long` values of the decode cycle stay far below 2^31 and are *)
(* plain integers.  printDebug only reads the state and is left out.       *)
(***************************************************************************)
EXTENDS Integers, Sequences, FiniteSets, TLC

(***************************************************************************)
(* Program constants (main.cpp lines 38-52).                               *)
(***************************************************************************)
DEBOUNCE == 10000
TIMEOUT == 1500000

BAND_0 == 5 * 100
BAND_1 == 40 * 100

SPEED_DEV_LIMIT_0 == 5 * 100
SPEED_DEV_LIMIT_1 == 10 * 100
SPEED_DEV_LIMIT_2 == 30 * 100

DIR_DEV_LIMIT_0 == 25
DIR_DEV_LIMIT_1 == 18
DIR_DEV_LIMIT_2 == 10

(***************************************************************************)
(* Bounds of the model: clock advances and decode cycles per behaviour.    *)
(***************************************************************************)
MaxTicks == 2
MaxCycles == 2

(***************************************************************************)
(* 32-bit unsigned arithmetic on pairs of 16-bit halves.                   *)
(***************************************************************************)
W16 == 65536

\* the unsigned value of a natural number below 2^31
U(n) == <<n \div W16, n % W16>>

\* (a + b) mod 2^32
UAdd(a, b) ==
    LET lo == a[2] + b[2]
    IN  <<(a[1] + b[1] + (lo \div W16)) % W16, lo % W16>>

\* (a - b) mod 2^32
USub(a, b) ==
    LET lo == a[2] - b[2]
    IN  <<(a[1] - b[1] - (IF lo < 0 THEN 1 ELSE 0)) % W16, lo % W16>>

ULt(a, b) == a[1] < b[1] \/ (a[1] = b[1] /\ a[2] < b[2])
UGt(a, b) == ULt(b, a)
UGe(a, b) == ~ULt(a, b)

\* (a * k) mod 2^32 for a small multiplier 0 <= k < 2^15
UMul(a, k) ==
    LET lo == a[2] * k
        hi == a[1] * k + (lo \div W16)
    IN  <<hi % W16, lo % W16>>

\* the plain integer of an unsigned value below 2^31
UToInt(a) == a[1] * W16 + a[2]

\* a / b (unsigned, truncating), b > 0.  a is split as 2 * half + odd so
\* that every intermediate value fits TLC's integers.
UDiv(a, b) ==
    IF b[1] >= 32768
    THEN (IF UGe(a, b) THEN U(1) ELSE U(0))
    ELSE LET bn   == UToInt(b)
             half == a[1] * 32768 + (a[2] \div 2)
             odd  == a[2] % 2
             q1   == half \div bn
             r1   == half % bn
             more == IF r1 + odd >= bn - r1 THEN 1 ELSE 0
         IN  UAdd(UAdd(U(q1), U(q1)), U(more))

\* a % m (unsigned) for a small modulus m
UMod(a, m) == ((a[1] % m) * (W16 % m) + a[2]) % m

\* conversion of an int to unsigned long (two's complement for negatives)
IntToU(i) == IF i >= 0 THEN U(i) ELSE USub(U(0), U(-i))

(***************************************************************************)
(* C integer helpers: abs(), and / and % truncating towards zero.          *)
(***************************************************************************)
Abs(x) == IF x < 0 THEN -x ELSE x

CDiv(a, b) == IF a >= 0 THEN a \div b ELSE -((-a) \div b)

CMod(a, b) == a - b * CDiv(a, b)

\* x * y for x, y < 2^16 as an unsigned 32-bit value
Mul16(x, y) ==
    LET t1 == x * (y \div 256)
        t0 == x * (y % 256)
        lo == (t1 % 256) * 256 + t0
    IN  <<((t1 \div 256) + (lo \div W16)) % W16, lo % W16>>

\* a long as the unsigned value of its 32 bits, and back
LongToU(i) == <<(i \div W16) % W16, i % W16>>

UToLong(a) ==
    IF a[1] < 32768 THEN a[1] * W16 + a[2] ELSE (a[1] - W16) * W16 + a[2]

\* a * b on long: the low 32 bits of the product.  A product outside the
\* range of long is signed overflow; the multiply instruction of the build
\* keeps the low 32 bits.
LMul(a, b) ==
    LET x  == LongToU(a)
        y  == LongToU(b)
        ll == Mul16(x[2], y[2])
        cross == Mul16(x[1], y[2])[2] + Mul16(x[2], y[1])[2]
    IN  UToLong(<<(ll[1] + cross) % W16, ll[2]>>)

\* line 262: the product gain * delta in single precision.  The gain is
\* the float g[1] / g[2], g[1] < 2^24 and g[2] a power of two up to 2^24;
\* the product of g[1] and a = |delta| < 256 is rounded to the 24 bits of a
\* float significand, ties to even.  The result is <<R, s>>, the float
\* R * 2^s / g[2].
FloatMul(g, a) ==
    LET mh == g[1] \div 4096
        ml == g[1] % 4096
        H  == mh * a + ((ml * a) \div 4096)
        L  == (ml * a) % 4096
        s  == CHOOSE n \in 0..12 :
                  /\ H < 4096 * 2^n
                  /\ n = 0 \/ H >= 2048 * 2^n
        R0 == H * (4096 \div 2^s) + (L \div 2^s)
        rem == L % 2^s
        up == IF 2 * rem > 2^s \/ (2 * rem = 2^s /\ R0 % 2 = 1)
              THEN 1 ELSE 0
    IN  <<R0 + up, s>>

\* round() of that float: halves round away from zero
RoundMul(g, delta) ==
    LET f == FloatMul(g, Abs(delta))
        R == f[1]
        p == 2^f[2]
        n == IF g[2] <= p THEN R * (p \div g[2])
             ELSE (2 * R + (g[2] \div p)) \div (2 * (g[2] \div p))
    IN  IF delta >= 0 THEN n ELSE -n

(***************************************************************************)
(* checkSpeedDev / checkDirDev (main.cpp lines 149-181).                   *)
(***************************************************************************)
\* the deviation limits taken as inclusive
checkSpeedDevInclusive(c, d) ==
    IF c < BAND_0 THEN Abs(d) <= SPEED_DEV_LIMIT_0
    ELSE IF c < BAND_1 THEN Abs(d) <= SPEED_DEV_LIMIT_1
    ELSE Abs(d) <= SPEED_DEV_LIMIT_2

checkSpeedDev(c, dev) ==
    IF c < BAND_0 THEN Abs(dev) < SPEED_DEV_LIMIT_0
    ELSE IF c < BAND_1 THEN Abs(dev) < SPEED_DEV_LIMIT_1
    ELSE Abs(dev) < SPEED_DEV_LIMIT_2

\* the deviation compared on the line, without the wrap at 360
checkDirDevLinear(c, d) ==
    IF c < BAND_0 THEN Abs(d) < DIR_DEV_LIMIT_0
    ELSE IF c < BAND_1 THEN Abs(d) < DIR_DEV_LIMIT_1
    ELSE Abs(d) < DIR_DEV_LIMIT_2

checkDirDev(c, dev) ==
    IF c < BAND_0
    THEN Abs(dev) < DIR_DEV_LIMIT_0 \/ Abs(dev) > 360 - DIR_DEV_LIMIT_0
    ELSE IF c < BAND_1
    THEN Abs(dev) < DIR_DEV_LIMIT_1 \/ Abs(dev) > 360 - DIR_DEV_LIMIT_1
    ELSE Abs(dev) < DIR_DEV_LIMIT_2 \/ Abs(dev) > 360 - DIR_DEV_LIMIT_2

(***************************************************************************)
(* The stages of calcWindSpeedAndDir as functions of their inputs.         *)
(***************************************************************************)
\* a cycle without the stall timeout of line 203
StalledNever(t, sp) == FALSE

\* line 203: the stall test on the snapshot's speed pulse time
Stalled(t, sp) == UGt(USub(t, sp), U(TIMEOUT))

\* line 210: revolutions per 100 s
RotationRate(st) == UToInt(UDiv(U(100000000), st))

\* lines 212-225: the piecewise calibration, clamped at zero
Calibrate(r) ==
    LET c == IF r < 323
             THEN CDiv(LMul(LMul(r, r), -11), 22369)
                      + CDiv(LMul(293, r), 223) - 12
             ELSE IF r < 5436
             THEN CDiv(CDiv(LMul(r, r), 2), 22369)
                      + CDiv(LMul(220, r), 223) + 96
             ELSE CDiv(LMul(LMul(r, r), 11), 22369)
                      - CDiv(LMul(957, r), 223) + 28664
    IN  IF c < 0 THEN 0 ELSE c

\* line 235: the direction pulse did not fall inside the speed interval
OrderingFault(dt, st) == UGt(dt, st)

\* lines 242-244: the direction from the captured pulse times; the
\* quotient, the offset and the remainder are unsigned long
ResolveDirection(dt, st, off) ==
    360 - UMod(USub(UDiv(UMul(dt, 360), st), IntToU(off)), 360)

\* the filter without the choice of the shortest path
SmoothLongWay(out, wd, g) ==
    LET moved == CMod(out + RoundMul(g, wd - out), 360)
    IN  IF moved < 0 THEN moved + 360 ELSE moved

\* the filter without the correction of a negative remainder
SmoothNoFixup(out, wd, g) ==
    LET raw   == wd - out
        delta == IF raw < -180 THEN raw + 360
                 ELSE IF raw > 180 THEN raw - 360
                 ELSE raw
    IN  CMod(out + RoundMul(g, delta), 360)

\* lines 252-263: the smoothing filter on the shortest path
Smooth(out, wd, g) ==
    LET raw   == wd - out
        delta == IF raw < -180 THEN raw + 360
                 ELSE IF raw > 180 THEN raw - 360
                 ELSE raw
        moved == CMod(out + RoundMul(g, delta), 360)
    IN  IF moved < 0 THEN moved + 360 ELSE moved

\* the stage with prevDir updated after the if/else, also on a fault
DirectionStageStoresFault(dt, st, off, c, pDir, out, g) ==
    IF OrderingFault(dt, st)
    THEN [windDirection |-> 999, prevDir |-> 999, dirOut |-> out,
          branch |-> "orderingFault"]
    ELSE LET wd == ResolveDirection(dt, st, off)
         IN  IF checkDirDev(c, wd - pDir)
             THEN [windDirection |-> wd, prevDir |-> wd,
                   dirOut |-> Smooth(out, wd, g), branch |-> "dirAccepted"]
             ELSE [windDirection |-> wd, prevDir |-> wd, dirOut |-> out,
                   branch |-> "dirRejected"]

\* the stage smoothing every resolved direction, plausible or not
DirectionStageSmoothsRejected(dt, st, off, c, pDir, out, g) ==
    IF OrderingFault(dt, st)
    THEN [windDirection |-> 999, prevDir |-> pDir, dirOut |-> out,
          branch |-> "orderingFault"]
    ELSE LET wd == ResolveDirection(dt, st, off)
         IN  [windDirection |-> wd, prevDir |-> wd,
              dirOut |-> Smooth(out, wd, g),
              branch |-> IF checkDirDev(c, wd - pDir)
                         THEN "dirAccepted" ELSE "dirRejected"]

\* lines 235-266: the direction stage of a cycle whose speed was accepted
DirectionStage(dt, st, off, c, pDir, out, g) ==
    IF OrderingFault(dt, st)
    THEN [windDirection |-> 999, prevDir |-> pDir, dirOut |-> out,
          branch |-> "orderingFault"]
    ELSE LET wd == ResolveDirection(dt, st, off)
         IN  IF checkDirDev(c, wd - pDir)
             THEN [windDirection |-> wd, prevDir |-> wd,
                   dirOut |-> Smooth(out, wd, g), branch |-> "dirAccepted"]
             ELSE [windDirection |-> wd, prevDir |-> wd, dirOut |-> out,
                   branch |-> "dirRejected"]

(***************************************************************************)
(* State.  The shared pulse state and the clock are unsigned 32-bit pairs; *)
(* the outputs, the statics of calcWindSpeedAndDir and its other locals    *)
(* (cmps, windDirection, dev, as left by the last cycle) are integers.     *)
(* filter_gain is the exact fraction <<numerator, denominator>>            *)
(* of the configured float.  branch, lastBranch, idleFor, ticks and cycles *)
(* are history variables: the paths the last cycle and the one before it   *)
(* took, the true time (not wrapped, saturating just above TIMEOUT) since  *)
(* the last accepted speed pulse, and the counters the bounds apply to.    *)
(***************************************************************************)
VARIABLES now, speedPulse, dirPulse, speedTime, directionTime,
          speedOut, dirOut, ignoreNextReading, rps,
          prevSpeed, prevDir,
          filter_gain, dir_offset,
          pc, intsOn,
          dirPulse_, speedPulse_, speedTime_, directionTime_,
          cmps, windDirection, dev,
          branch, lastBranch, idleFor, ticks, cycles

shared == <<speedPulse, dirPulse, speedTime, directionTime>>
outputs == <<speedOut, dirOut, ignoreNextReading, rps>>
statics == <<prevSpeed, prevDir>>
config == <<filter_gain, dir_offset>>
snapshot == <<dirPulse_, speedPulse_, speedTime_, directionTime_>>
locals == <<cmps, windDirection, dev>>
vars == <<now, shared, outputs, statics, config, pc, intsOn, snapshot,
          locals, branch, lastBranch, idleFor, ticks, cycles>>

(***************************************************************************)
(* The environment's inputs: clock advances between steps, clock advances  *)
(* between two reads of a handler, and configuration values.  A clock      *)
(* advance is <<w, u>>: w whole periods of the 32-bit clock and u more     *)
(* microseconds.  The advances are a bounce, a rotation, the stall         *)
(* timeout, a stall one microsecond short of a period, and a stall of a    *)
(* period and a bounce.                                                    *)
(***************************************************************************)
Deltas ==
    {<<0, U(5000)>>, <<0, U(400000)>>, <<0, U(TIMEOUT)>>,
     <<0, USub(U(0), U(1))>>, <<1, U(5000)>>}

ReadGaps == {0, 2}

\* stored filter gains and direction offsets of a running device.  The
\* last gain is the float nearest to 0.7.
Gains == {<<0, 1>>, <<1, 4>>, <<1, 2>>, <<1, 1>>, <<11744051, 16777216>>}

Offsets == {0, 10, 90, 725, -350, -357}

\* the configuration found in storage at boot (the defaults when none was
\* saved), and the values submitted to a running device
BootGains == {<<1, 4>>, <<1, 2>>}

BootOffsets == {0, 10}

NewGains == {<<1, 2>>}

NewOffsets == {10}

(***************************************************************************)
(* The state after setup(): globals as initialised on lines 54-62 and      *)
(* 190-191; the configurables constructed on lines 112-113 with the        *)
(* defaults 0.25 and 0, which load_configuration() in their constructors   *)
(* replaces by the stored values.                                          *)
(***************************************************************************)
Init ==
    /\ now = U(0)
    /\ speedPulse = U(0) /\ dirPulse = U(0)
    /\ speedTime = U(0) /\ directionTime = U(0)
    /\ speedOut = 0 /\ dirOut = 0
    /\ ignoreNextReading = FALSE /\ rps = 0
    /\ prevSpeed = 0 /\ prevDir = 0
    /\ filter_gain \in BootGains /\ dir_offset \in BootOffsets
    /\ pc = "idle" /\ intsOn = TRUE
    /\ dirPulse_ = U(0) /\ speedPulse_ = U(0)
    /\ speedTime_ = U(0) /\ directionTime_ = U(0)
    /\ cmps = 0 /\ windDirection = 0 /\ dev = 0
    /\ branch = "none" /\ lastBranch = "none"
    /\ idleFor = 0 /\ ticks = 0 /\ cycles = 0

(***************************************************************************)
(* The microsecond clock advances by d.  The four copies of the critical   *)
(* section take well under a microsecond, so the clock is held there.      *)
(* ticks counts the advances of the clock, those between the reads of a    *)
(* handler included.                                                       *)
(***************************************************************************)
Tick(d) ==
    /\ ticks < MaxTicks
    /\ pc \in {"idle", "l203"}
    /\ now' = UAdd(now, d[2])
    /\ ticks' = ticks + 1
    /\ idleFor' = IF \/ d[1] > 0
                     \/ idleFor > TIMEOUT
                     \/ UGt(d[2], U(TIMEOUT - idleFor))
                  THEN TIMEOUT + 1
                  ELSE idleFor + UToInt(d[2])
    /\ UNCHANGED <<shared, outputs, statics, config, pc, intsOn, snapshot,
                   locals, branch, lastBranch, cycles>>

(***************************************************************************)
(* The interrupt handlers.  A handler runs to completion, and only while   *)
(* interrupts are enabled.  It reads the clock anew at every micros() and  *)
(* the clock may have advanced between two reads: readWindSpeed reads it   *)
(* on lines 130, 133 and 137 (now, now + a, now + a + b), readWindDir on   *)
(* lines 143 and 145 (now, now + a).  A handler that turns the edge down   *)
(* has read the clock once.                                                *)
(***************************************************************************)
\* a build in which noInterrupts() does not mask the pulse interrupts
InterruptsNeverMasked == TRUE

InterruptsEnabled == intsOn

\* line 130 / 143: debounce and the level of the pin
EdgeAccepted(t, last, low) == UGt(USub(t, last), U(DEBOUNCE)) /\ low

\* line 135: `dirPulse - speedPulse >= 0` on unsigned long
DirAfterSpeed(dp, sp) == UGe(USub(dp, sp), U(0))

readWindSpeed(low, a, b) ==
    /\ InterruptsEnabled
    /\ a + b > 0 => ticks < MaxTicks
    /\ IF EdgeAccepted(now, speedPulse, low)
       THEN /\ speedTime' = USub(UAdd(now, U(a)), speedPulse)
            /\ directionTime' = IF DirAfterSpeed(dirPulse, speedPulse)
                                THEN USub(dirPulse, speedPulse)
                                ELSE directionTime
            /\ speedPulse' = UAdd(now, U(a + b))
            /\ now' = UAdd(now, U(a + b))
            /\ ticks' = IF a + b > 0 THEN ticks + 1 ELSE ticks
            /\ idleFor' = 0
            /\ UNCHANGED dirPulse
       ELSE UNCHANGED <<now, shared, idleFor, ticks>>
    /\ UNCHANGED <<outputs, statics, config, pc, intsOn, snapshot,
                   locals, branch, lastBranch, cycles>>

readWindDir(low, a) ==
    /\ InterruptsEnabled
    /\ a > 0 => ticks < MaxTicks
    /\ IF EdgeAccepted(now, dirPulse, low)
       THEN /\ dirPulse' = UAdd(now, U(a))
            /\ now' = UAdd(now, U(a))
            /\ ticks' = IF a > 0 THEN ticks + 1 ELSE ticks
            /\ idleFor' = IF idleFor + a > TIMEOUT THEN TIMEOUT + 1
                          ELSE idleFor + a
       ELSE UNCHANGED <<now, dirPulse, idleFor, ticks>>
    /\ UNCHANGED <<speedPulse, speedTime, directionTime, outputs,
                   statics, config, pc, intsOn, snapshot, locals,
                   branch, lastBranch,
                   cycles>>

(***************************************************************************)
(* set_configuration of the two configurables (ui_configurables.cpp).      *)
(***************************************************************************)
\* has: the submitted object contains the key "value"
SetFilterGain(has, v) ==
    /\ filter_gain' = IF has THEN v ELSE filter_gain
    /\ UNCHANGED <<now, shared, outputs, statics, dir_offset, pc, intsOn,
                   snapshot, locals,
                   branch, lastBranch, idleFor, ticks, cycles>>

SetDirOffset(has, v) ==
    /\ dir_offset' = IF has THEN v ELSE dir_offset
    /\ UNCHANGED <<now, shared, outputs, statics, filter_gain, pc, intsOn,
                   snapshot, locals,
                   branch, lastBranch, idleFor, ticks, cycles>>

(***************************************************************************)
(* calcWindSpeedAndDir, one step per statement of the snapshot and one for *)
(* the decode that follows it.  pc names the line to be executed next.     *)
(***************************************************************************)
\* lines 185-195: entry, locals initialised, noInterrupts()
NoInterrupts ==
    /\ pc = "idle"
    /\ cycles < MaxCycles
    /\ cycles' = cycles + 1
    /\ intsOn' = FALSE
    /\ cmps' = 0 /\ windDirection' = 0 /\ dev' = 0
    /\ pc' = "l196"
    /\ UNCHANGED <<now, shared, outputs, statics, config, snapshot,
                   branch, lastBranch,
                   idleFor, ticks>>

CopyDirPulse ==
    /\ pc = "l196"
    /\ dirPulse_' = dirPulse
    /\ pc' = "l197"
    /\ UNCHANGED <<now, shared, outputs, statics, config, intsOn,
                   speedPulse_, speedTime_, directionTime_, locals,
                   branch, lastBranch,
                   idleFor, ticks, cycles>>

CopySpeedPulse ==
    /\ pc = "l197"
    /\ speedPulse_' = speedPulse
    /\ pc' = "l198"
    /\ UNCHANGED <<now, shared, outputs, statics, config, intsOn,
                   dirPulse_, speedTime_, directionTime_, locals,
                   branch, lastBranch,
                   idleFor, ticks, cycles>>

CopySpeedTime ==
    /\ pc = "l198"
    /\ speedTime_' = speedTime
    /\ pc' = "l199"
    /\ UNCHANGED <<now, shared, outputs, statics, config, intsOn,
                   dirPulse_, speedPulse_, directionTime_, locals,
                   branch, lastBranch,
                   idleFor, ticks, cycles>>

CopyDirectionTime ==
    /\ pc = "l199"
    /\ directionTime_' = directionTime
    /\ pc' = "l200"
    /\ UNCHANGED <<now, shared, outputs, statics, config, intsOn,
                   dirPulse_, speedPulse_, speedTime_, locals,
                   branch, lastBranch,
                   idleFor, ticks, cycles>>

Interrupts ==
    /\ pc = "l200"
    /\ intsOn' = TRUE
    /\ pc' = "l203"
    /\ UNCHANGED <<now, shared, outputs, statics, config, snapshot, locals,
                   branch, lastBranch, idleFor, ticks, cycles>>

\* the decode with line 273 moved into the accepted branch: prevSpeed
\* follows only speeds that pass checkSpeedDev
DecodeTracksAcceptedSpeed ==
    /\ pc = "l203"
    /\ LET st == IF Stalled(now, speedPulse_) THEN U(0) ELSE speedTime_
       IN  IF UGt(st, U(0))
           THEN LET r == RotationRate(st)
                    c == Calibrate(r)
                IN  /\ rps' = r
                    /\ cmps' = c
                    /\ IF checkSpeedDev(c, c - prevSpeed)
                       THEN LET d == DirectionStage(directionTime_, st,
                                         dir_offset, c, prevDir, dirOut,
                                         filter_gain)
                            IN  /\ speedOut' = c
                                /\ prevSpeed' = c
                                /\ dev' = IF d.branch = "orderingFault"
                                          THEN c - prevSpeed
                                          ELSE d.windDirection - prevDir
                                /\ windDirection' = d.windDirection
                                /\ prevDir' = d.prevDir
                                /\ dirOut' = d.dirOut
                                /\ branch' = d.branch
                                /\ UNCHANGED ignoreNextReading
                       ELSE /\ ignoreNextReading' = TRUE
                            /\ dev' = c - prevSpeed
                            /\ branch' = "speedRejected"
                            /\ UNCHANGED <<speedOut, prevSpeed,
                                           windDirection, prevDir, dirOut>>
           ELSE /\ speedOut' = 0
                /\ prevSpeed' = 0
                /\ branch' = "stalled"
                /\ UNCHANGED <<rps, cmps, windDirection, dev, prevDir,
                               dirOut, ignoreNextReading>>
    /\ dirPulse_' = U(0) /\ speedPulse_' = U(0)
    /\ speedTime_' = U(0) /\ directionTime_' = U(0)
    /\ pc' = "idle"
    /\ lastBranch' = branch
    /\ UNCHANGED <<now, shared, config, intsOn, idleFor, ticks, cycles>>

\* lines 203-283: the decode on the snapshot; the locals go out of scope.
\* The closing set_input calls (lines 281-282) hand speedOut / 100 and
\* dirOut * 0.0174533 to the telemetry outputs and change no decoder state.
Decode ==
    /\ pc = "l203"
    /\ LET st == IF Stalled(now, speedPulse_) THEN U(0) ELSE speedTime_
       IN  IF UGt(st, U(0))
           THEN LET r == RotationRate(st)
                    c == Calibrate(r)
                IN  /\ rps' = r
                    /\ cmps' = c
                    /\ prevSpeed' = c
                    /\ IF checkSpeedDev(c, c - prevSpeed)
                       THEN LET d == DirectionStage(directionTime_, st,
                                         dir_offset, c, prevDir, dirOut,
                                         filter_gain)
                            IN  /\ speedOut' = c
                                /\ dev' = IF d.branch = "orderingFault"
                                          THEN c - prevSpeed
                                          ELSE d.windDirection - prevDir
                                /\ windDirection' = d.windDirection
                                /\ prevDir' = d.prevDir
                                /\ dirOut' = d.dirOut
                                /\ branch' = d.branch
                                /\ UNCHANGED ignoreNextReading
                       ELSE /\ ignoreNextReading' = TRUE
                            /\ dev' = c - prevSpeed
                            /\ branch' = "speedRejected"
                            /\ UNCHANGED <<speedOut, windDirection, prevDir,
                                           dirOut>>
           ELSE /\ speedOut' = 0
                /\ prevSpeed' = 0
                /\ branch' = "stalled"
                /\ UNCHANGED <<rps, cmps, windDirection, dev, prevDir,
                               dirOut, ignoreNextReading>>
    /\ dirPulse_' = U(0) /\ speedPulse_' = U(0)
    /\ speedTime_' = U(0) /\ directionTime_' = U(0)
    /\ pc' = "idle"
    /\ lastBranch' = branch
    /\ UNCHANGED <<now, shared, config, intsOn, idleFor, ticks, cycles>>

calcWindSpeedAndDir ==
    \/ NoInterrupts
    \/ CopyDirPulse
    \/ CopySpeedPulse
    \/ CopySpeedTime
    \/ CopyDirectionTime
    \/ Interrupts
    \/ Decode

(***************************************************************************)
(* Spec: the device from boot, with pulses arriving, the clock advancing   *)
(* between and during decode cycles, and values submitted to the two       *)
(* configurables.                                                          *)
(***************************************************************************)
Next ==
    \/ \E d \in Deltas : Tick(d)
    \/ \E low \in BOOLEAN, a \in ReadGaps, b \in ReadGaps :
          readWindSpeed(low, a, b)
    \/ \E low \in BOOLEAN, a \in ReadGaps : readWindDir(low, a)
    \/ \E has \in BOOLEAN, v \in NewGains : SetFilterGain(has, v)
    \/ \E has \in BOOLEAN, v \in NewOffsets : SetDirOffset(has, v)
    \/ calcWindSpeedAndDir

Spec == Init /\ [][Next]_vars

(***************************************************************************)
(* SpecRun: the steps of Next (clock, both handlers, reconfiguration and   *)
(* decode cycles) from the states of a running device.  A running state is *)
(* given by the last two speed intervals the                               *)
(* handler recorded (the earlier one decoded by the previous cycle), the   *)
(* direction interval, the time since the last speed pulse, the statics    *)
(* and outputs left by earlier cycles, and the configuration.               *)
(* ignoreNextReading is set once a cycle has rejected a speed and never    *)
(* cleared: it is set in a state whose published speed is not the previous *)
(* speed, and in a state whose previous speed lies in the last calibration *)
(* band, which starts more than SPEED_DEV_LIMIT_2 above the band before    *)
(* it.  prevDir is 0 only until the first direction is resolved, and       *)
(* dirOut is 0 until then.  The clock has advanced before a running state  *)
(* (ticks = 1), and n cycles are counted as run: 0 in the states of the    *)
(* speed stage, whose claims concern two cycles in a row, 1 in the others. *)
(***************************************************************************)
\* speed intervals (us) at the edges of the calibration and speed bands;
\* their calibrated speeds are 0 115 361 416 499 500 614 615 1000 1001
\* 1499 1500 2999 3000 3999 4000 6117 19867 34919
SpeedTimes ==
    {20000000, 1000000, 310559, 309597, 246305, 245700, 192678, 192307,
     111234, 111111, 72463, 72411, 36101, 36088, 27359, 27352, 18399,
     18395, 10001}

\* one speed interval per speed band (115, 1000 and 4000 cm/s)
BandTimes == {1000000, 111234, 27352}

\* time since the last speed pulse: within the timeout, and beyond it
SinceTimes == {100000, 2000000}

\* the time of the last speed pulse in the running states
lastPulse == U(50000000)

\* the speed a previous cycle computed from interval pst (0: it stalled)
SpeedOf(pst) == IF pst = 0 THEN 0 ELSE Calibrate(RotationRate(U(pst)))

RunState(st, pst, dt, e, sOut, pDir, dOut, g, off, n) ==
    /\ now = UAdd(lastPulse, U(e))
    /\ speedPulse = lastPulse
    /\ speedTime = U(st)
    /\ directionTime = dt
    /\ dirPulse = UAdd(USub(lastPulse, U(st)), dt)
    /\ speedOut = sOut /\ dirOut = dOut
    /\ ignoreNextReading =
          (sOut # SpeedOf(pst) \/ SpeedOf(pst) >= Calibrate(5436))
    /\ rps = IF pst = 0 THEN 0 ELSE RotationRate(U(pst))
    /\ prevSpeed = SpeedOf(pst) /\ prevDir = pDir
    /\ filter_gain = g /\ dir_offset = off
    /\ pc = "idle" /\ intsOn = TRUE
    /\ dirPulse_ = U(0) /\ speedPulse_ = U(0)
    /\ speedTime_ = U(0) /\ directionTime_ = U(0)
    /\ cmps = 0 /\ windDirection = 0 /\ dev = 0
    /\ branch = "none" /\ lastBranch = "none"
    /\ idleFor = IF e > TIMEOUT THEN TIMEOUT + 1 ELSE e
    /\ ticks = 1 /\ cycles = n

\* previous and new speed interval of the speed stage: every interval
\* repeated, and the pairs whose speeds lie one short of, and at, the
\* deviation limit of the band of the new speed
SpeedPairs ==
    {<<st, st>> : st \in SpeedTimes} \cup
    {<<246305, 20000000>>, <<1000000, 192678>>, <<1000000, 192307>>,
     <<245700, 72463>>, <<245700, 72411>>, <<27359, 36101>>,
     <<27359, 36088>>, <<27352, 111234>>, <<27352, 111111>>,
     <<18399, 27359>>, <<18395, 18399>>, <<10001, 18395>>,
     <<1000000, 0>>, <<111234, 0>>}

\* the speed stage: previous and new speed, steady direction.  The
\* previous speed was published, or, where the new speed differs from it,
\* rejected; the last pulse is older than the timeout for two of the pairs.
SpeedStates ==
    \E p \in SpeedPairs, e \in SinceTimes :
      \E sOut \in {0, SpeedOf(p[2])} :
        /\ sOut = 0 => p[1] # p[2] \/ SpeedOf(p[2]) = 0
        /\ e > TIMEOUT => p \in {<<1000000, 1000000>>, <<27352, 111234>>}
        /\ RunState(p[1], p[2], U(p[1] \div 2), e, sOut, 180, 180, <<1, 4>>,
                 0, 0)

\* direction intervals of a speed interval st: the pulse at the start, at
\* a quarter, at the half, just before the end, at the end of the speed
\* interval, and older than the previous speed pulse (the difference wraps)
DirTimes(st) ==
    {U(0), U(st \div 4), U(st \div 2), U(st - 1), U(st),
     USub(U(0), U(100000))}

\* the resolution of the direction: intervals and offsets, steady speed
ResolveStates ==
    \E st \in BandTimes \cup {20000000} :
      \E dt \in DirTimes(st), off \in Offsets :
        RunState(st, st, dt, 100000, SpeedOf(st), 180, 180, <<1, 4>>, off,
                 1)

\* previous directions of the direction check against the new direction
\* wd: none yet (0), 358 and 360, and those whose distance to wd, on the
\* line or across north, is a deviation limit or one short of it
CheckDirs(wd) ==
    {0, 358, 360} \cup
    {d \in 1..360 :
       \E w \in {wd, wd + 360},
          lim \in {DIR_DEV_LIMIT_0, DIR_DEV_LIMIT_1, DIR_DEV_LIMIT_2} :
         Abs(d - w) \in {lim - 1, lim}}

\* the direction check: previous directions against a new one
CheckStates ==
    \E st \in BandTimes, off \in {0, -357} :
     \E pDir \in CheckDirs(IF off = 0 THEN 180 ELSE 3) :
      RunState(st, st, U(IF off = 0 THEN st \div 2 ELSE 0), 100000,
               SpeedOf(st), pDir, IF pDir = 0 THEN 0 ELSE 180, <<1, 4>>,
               off, 1)

\* smoothed directions of the smoothing: around north, around south and
\* the quarters
SmoothDirs == {0, 1, 5, 90, 180, 181, 270, 350, 359}

\* the smoothing: smoothed directions and gains against a new direction
\* (360, 194 or 10) that repeats the previous one
SmoothStates ==
    \E off \in {0, 90, -350}, dOut \in SmoothDirs, g \in Gains :
      RunState(1000000, 1000000, U(0), 100000, 115,
               ResolveDirection(U(0), U(1000000), off), dOut, g, off, 1)

InitRun == SpeedStates \/ ResolveStates \/ CheckStates \/ SmoothStates

SpecRun == InitRun /\ [][Next]_vars

(***************************************************************************)
(* Properties.                                                             *)
(***************************************************************************)
\* the step of a cycle that decodes the snapshot (lines 203-283)
DecodeStep == pc = "l203" /\ pc' = "idle"

Min(a, b) == IF a < b THEN a ELSE b
Max(a, b) == IF a > b THEN a ELSE b

\* C1: the snapshot is atomic: while the four copies are taken no interrupt
\* handler changes the shared pulse state, so every copy made so far, and
\* at the end all four, equal the shared values of the present instant.
SnapshotAtomic ==
    /\ pc \in {"l197", "l198", "l199", "l200"} => dirPulse_ = dirPulse
    /\ pc \in {"l198", "l199", "l200"} => speedPulse_ = speedPulse
    /\ pc \in {"l199", "l200"} => speedTime_ = speedTime
    /\ pc = "l200" => directionTime_ = directionTime

\* a completed snapshot of pulse state that both handlers have written
SnapshotTaken ==
    /\ pc = "l200"
    /\ dirPulse_ # U(0) /\ speedPulse_ # U(0)
    /\ speedTime_ # U(0) /\ directionTime_ # U(0)

\* C2: once more than TIMEOUT has truly elapsed since the last accepted
\* speed pulse, every decode cycle publishes speed 0 until a new speed
\* pulse is accepted, however long the stall lasts.
StallPublishesZero ==
    [][(DecodeStep /\ idleFor > TIMEOUT) => speedOut' = 0]_vars

\* C3: in a cycle that is not stalled the computed speed is published if
\* the deviation from the previous speed is strictly below the limit of its
\* band (500 below 500 cm/s, 1000 below 4000 cm/s, 3000 from there on), and
\* otherwise the published speed keeps its value.
ClaimSpeedLimit(c) ==
    IF c < 500 THEN 500 ELSE IF c < 4000 THEN 1000 ELSE 3000

SpeedPlausibility ==
    [][(DecodeStep /\ branch' # "stalled") =>
          LET within == Abs(cmps' - prevSpeed) < ClaimSpeedLimit(cmps')
          IN  /\ within => speedOut' = cmps'
              /\ ~within => speedOut' = speedOut
              /\ within <=> branch' # "speedRejected"]_vars

\* a speed of 3999 cm/s rejected at a deviation of exactly 1000, the
\* published 2999 kept
SpeedRejectedAtLimit ==
    /\ pc = "idle" /\ branch = "speedRejected"
    /\ cmps = 3999 /\ dev = 1000 /\ speedOut = 2999

\* the cycle resolved a direction (speed accepted, no ordering fault)
Resolved == branch' \in {"dirAccepted", "dirRejected"}

\* C4: a resolved direction is accepted exactly when its circular distance
\* to the previous direction, min(|dev|, 360 - |dev|), is strictly below
\* the limit of the speed band (25, 18, 10); 358 -> 3 is accepted in every
\* band.
ClaimDirLimit(c) ==
    IF c < 500 THEN 25 ELSE IF c < 4000 THEN 18 ELSE 10

CircularDistance(d) == Min(Abs(d), 360 - Abs(d))

DirPlausibility ==
    [][(DecodeStep /\ Resolved) =>
          /\ branch' = "dirAccepted" <=>
                CircularDistance(windDirection' - prevDir)
                    < ClaimDirLimit(cmps')
          /\ (prevDir = 358 /\ windDirection' = 3) =>
                branch' = "dirAccepted"]_vars

\* direction 3 accepted after 358 in the tightest band
WrapAcceptedInTightBand ==
    /\ pc = "idle" /\ branch = "dirAccepted"
    /\ windDirection = 3 /\ dev = -355 /\ cmps = 4000

\* C5: an accepted direction d moves the smoothed direction s to
\* (s + round(g * delta)) mod 360, delta = d - s brought into -180..180 by
\* adding or subtracting 360; s = 350, d = 10, g = 0.5 gives 0.
ClaimDelta(d, s) ==
    IF d - s < -180 THEN d - s + 360
    ELSE IF d - s > 180 THEN d - s - 360
    ELSE d - s

ShortestArcSmoothing ==
    [][(DecodeStep /\ branch' = "dirAccepted") =>
          LET delta == ClaimDelta(windDirection', dirOut)
          IN  /\ Abs(delta) <= 180
              /\ dirOut' = (dirOut + RoundMul(filter_gain, delta)) % 360
              /\ (dirOut = 350 /\ windDirection' = 10
                    /\ filter_gain = <<1, 2>>) => dirOut' = 0]_vars

\* direction 10 accepted at gain 0.5 and smoothed across north to 0
SmoothedAcrossNorth ==
    /\ pc = "idle" /\ branch = "dirAccepted"
    /\ windDirection = 10 /\ filter_gain = <<1, 2>> /\ dirOut = 0

\* C6: the published smoothed direction is within 0..359 in every state.
DirOutInRange == dirOut \in 0..359

\* direction 194 accepted at gain 0.5 from a smoothed direction just east
\* of north: the sum went below zero and was brought back to 277
SmoothedBelowZero ==
    /\ pc = "idle" /\ branch = "dirAccepted"
    /\ windDirection = 194 /\ filter_gain = <<1, 2>> /\ dirOut = 277

\* C7: at gain 1.0 the smoothed direction equals the accepted direction
\* after the cycle.
GainOneTracksDirection ==
    [][(DecodeStep /\ branch' = "dirAccepted" /\ filter_gain = <<1, 1>>) =>
          dirOut' = windDirection']_vars

\* C8: for every decoded speed interval the rotation rate is
\* r = 100000000 / speedInterval and the computed speed is max(0, f(r)), f
\* the three-band formula with truncating division, multiply before
\* divide; 322 and 323 fall in different bands; the published speed is
\* never negative.  Above r = 13972, the last rate whose products are
\* below 2^31, f(r) is stated by its lower bound r.
Quot(a, b) == IF a < 0 THEN -((-a) \div b) ELSE a \div b

ClaimF(r) ==
    IF r < 323
    THEN Quot(r * r * (-11), 22369) + Quot(293 * r, 223) - 12
    ELSE IF r < 5436
    THEN Quot(Quot(r * r, 2), 22369) + Quot(220 * r, 223) + 96
    ELSE Quot(r * r * 11, 22369) - Quot(957 * r, 223) + 28664

SpeedCalibration ==
    [][(DecodeStep /\ branch' # "stalled") =>
          LET r == IF speedTime_[1] >= 32768 THEN 0
                   ELSE 100000000 \div UToInt(speedTime_)
          IN  /\ rps' = r
              /\ IF r <= 13972 THEN cmps' = Max(0, ClaimF(r))
                               ELSE cmps' >= r
              /\ r = 322 => cmps' = 361
              /\ r = 323 => cmps' = 416
              /\ speedOut' >= 0]_vars

\* C9: the resolved direction is 360 - ((q - offset) mod 360) with
\* q = dirInterval * 360 / speedInterval and the mathematical mod, for
\* every offset and every interval.
WideMul(a, k) ==
    LET lo == a[2] * k
        hi == a[1] * k + (lo \div W16)
    IN  <<hi \div W16, hi % W16, lo % W16>>

WideLe(x, y) ==
    \/ x[1] < y[1]
    \/ x[1] = y[1] /\ x[2] < y[2]
    \/ x[1] = y[1] /\ x[2] = y[2] /\ x[3] <= y[3]

\* floor(dt * 360 / st) for dt <= st, without overflow
TrueQuotient(dt, st) ==
    CHOOSE k \in 0..360 :
        /\ WideLe(WideMul(st, k), WideMul(dt, 360))
        /\ ~WideLe(WideMul(st, k + 1), WideMul(dt, 360))

DirectionResolution ==
    [][(DecodeStep /\ Resolved) =>
          windDirection' =
              360 - ((TrueQuotient(directionTime_, speedTime_) - dir_offset)
                        % 360)]_vars

\* C10: on an ordering fault in a cycle whose speed is accepted, the
\* published speed and prevSpeed become the computed speed, and the
\* smoothed direction and prevDir keep their values.
OrderingFaultKeepsDirection ==
    [][(DecodeStep /\ branch' \notin {"stalled", "speedRejected"}
          /\ UGt(directionTime_, speedTime_)) =>
          /\ speedOut' = cmps' /\ prevSpeed' = cmps'
          /\ dirOut' = dirOut /\ prevDir' = prevDir]_vars

\* a cycle that published a speed on an ordering fault
OrderingFaultSeen ==
    /\ pc = "idle" /\ branch = "orderingFault"
    /\ windDirection = 999 /\ cmps > 0 /\ speedOut = cmps

\* C11: a pulse time is taken (speedPulse or dirPulse changes) only when
\* at least DEBOUNCE us have passed since the pulse time it replaces, and
\* the speed interval is 0 or at least DEBOUNCE after every step.
Debounced ==
    [][/\ speedPulse' # speedPulse
            => UGe(USub(now, speedPulse), U(DEBOUNCE))
       /\ dirPulse' # dirPulse
            => UGe(USub(now, dirPulse), U(DEBOUNCE))
       /\ speedTime' = U(0) \/ UGe(speedTime', U(DEBOUNCE))]_vars

\* the divisor of lines 210 and 242: the snapshot's speed interval as line
\* 203 leaves it
SpeedInterval ==
    IF UGt(USub(now, speedPulse_), U(TIMEOUT)) THEN U(0) ELSE speedTime_

\* C12: a decode cycle takes the path with the two divisions (any path
\* but the stalled one) only when the divisor is above zero, and a cycle
\* whose divisor is zero takes the stalled path, divides nothing (rps
\* keeps its value) and publishes speed 0.
NoDivisionByZero ==
    [][DecodeStep =>
         /\ branch' # "stalled" => UGt(SpeedInterval, U(0))
         /\ SpeedInterval = U(0)
              => branch' = "stalled" /\ speedOut' = 0 /\ rps' = rps]_vars

\* a cycle has decoded a snapshot taken before the first speed pulse and
\* before the stall timeout has expired
ZeroIntervalBeforeTimeout ==
    /\ pc = "idle" /\ branch = "stalled"
    /\ speedTime = U(0) /\ speedOut = 0
    /\ ~UGt(USub(now, speedPulse), U(TIMEOUT))

\* C13: a cycle that rejects the resolved direction leaves prevDir as it
\* was, and prevDir changes only in a cycle that accepts the direction.
PrevDirIsLastAccepted ==
    [][/\ (DecodeStep /\ branch' = "dirRejected") => prevDir' = prevDir
       /\ prevDir' # prevDir => DecodeStep /\ branch' = "dirAccepted"]_vars

\* C14: dirOut changes only in the decode step of a cycle that is not
\* stalled (the divisor is above zero), whose speed passes checkSpeedDev
\* (speedOut takes the cycle's cmps), whose snapshot has the direction
\* interval at most the speed interval, and whose resolved direction passes
\* checkDirDev against the previous direction; every other decode step and
\* every step of a handler leaves it unchanged.
DirOutChangesOnlyWhenAccepted ==
    [][/\ dirOut' # dirOut =>
            /\ DecodeStep
            /\ UGt(SpeedInterval, U(0))
            /\ speedOut' = cmps'
            /\ ~UGt(directionTime_, SpeedInterval)
            /\ branch' = "dirAccepted"
            /\ LET d == windDirection' - prevDir
                   a == IF d < 0 THEN -d ELSE d
                   l == IF cmps' < BAND_0 THEN DIR_DEV_LIMIT_0
                        ELSE IF cmps' < BAND_1 THEN DIR_DEV_LIMIT_1
                        ELSE DIR_DEV_LIMIT_2
               IN  a < l \/ a > 360 - l
       /\ (DecodeStep /\ branch' # "dirAccepted") => dirOut' = dirOut
       /\ (speedPulse' # speedPulse \/ dirPulse' # dirPulse)
            => dirOut' = dirOut]_vars

\* an accepted direction has moved the smoothed direction off its boot
\* value
DirOutMoved ==
    /\ pc = "idle" /\ branch = "dirAccepted"
    /\ dirOut # 0 /\ speedOut = cmps /\ cmps > 0

\* C15: after the decode step of a cycle that is not stalled, prevSpeed is
\* the speed the cycle computed from its snapshot (the cycle's cmps),
\* whether checkSpeedDev accepted it or not; after the decode step of a
\* stalled or zero-interval cycle prevSpeed is 0.
PrevSpeedBookkeeping ==
    [][DecodeStep =>
         IF UGt(SpeedInterval, U(0))
         THEN /\ branch' # "stalled"
              /\ prevSpeed' = Calibrate(RotationRate(SpeedInterval))
              /\ prevSpeed' = cmps'
         ELSE branch' = "stalled" /\ prevSpeed' = 0]_vars

\* a cycle has rejected its speed and still stored it in prevSpeed
RejectedSpeedStored ==
    /\ pc = "idle" /\ branch = "speedRejected"
    /\ prevSpeed = cmps /\ speedOut # cmps

\* C16: the direction a cycle resolves, which it compares with prevDir,
\* smooths and stores in prevDir, is an integer from 0 to 359.
ResolvedDirectionInRange ==
    [][(DecodeStep /\ Resolved)
         => windDirection' \in 0..359 /\ prevDir' \in 0..359]_vars

\* the latest direction pulse is older than the previous speed pulse: the
\* difference of the pulse times is negative as a signed 32-bit value,
\* read while the last speed pulse is at most TIMEOUT old, so that the
\* wrapped clock cannot hide a direction pulse that is truly the newer
DirPulseOlder ==
    idleFor <= TIMEOUT /\ USub(dirPulse, speedPulse)[1] >= 32768

\* C17: on an accepted speed pulse speedTime becomes the time since the
\* previous speed pulse (at the handler's second reading of the clock) and
\* speedPulse the current time (its last reading); directionTime is
\* left unchanged when the latest direction pulse is older than the
\* previous speed pulse, and becomes dirPulse - speedPulse when the
\* direction pulse came at or after it.
DirectionTimeGuarded ==
    [][speedPulse' # speedPulse =>
         /\ \E a \in ReadGaps :
               speedTime' = USub(UAdd(now, U(a)), speedPulse)
         /\ speedPulse' = now'
         /\ DirPulseOlder => directionTime' = directionTime
         /\ (idleFor <= TIMEOUT /\ ~DirPulseOlder)
              => directionTime' = USub(dirPulse, speedPulse)]_vars

\* C18: when the previous cycle was not stalled and this cycle, not
\* stalled either, computes the same speed as the previous one (whose
\* rotation rate rps still holds), this cycle passes checkSpeedDev and
\* publishes that speed, whatever speedOut held and whatever the band.
SameSpeedTwiceIsPublished ==
    [][(/\ DecodeStep
        /\ branch \notin {"none", "stalled"}
        /\ UGt(SpeedInterval, U(0))
        /\ Calibrate(RotationRate(SpeedInterval)) = Calibrate(rps))
         => /\ branch' \notin {"stalled", "speedRejected"}
            /\ cmps' = Calibrate(rps)
            /\ speedOut' = cmps']_vars

\* a step change in speed was rejected by one cycle and published by the
\* next
StepChangePublishedAfterReject ==
    /\ pc = "idle" /\ lastBranch = "speedRejected"
    /\ branch \notin {"none", "stalled", "speedRejected"}
    /\ speedOut = cmps /\ cmps >= BAND_1

\* the largest value of a signed 32-bit long
LONG_MAX == 32767 * W16 + 65535

\* the largest rotation rate of a debounced speed interval
MaxRate == 100000000 \div (DEBOUNCE + 1)

\* the products of lines 214, 218 and 222 for rotation rate r stay within
\* a signed 32-bit long: rps * rps, rps * rps * 11 (and * -11), 957 * rps
\* (and with it the smaller 293 * rps and 220 * rps)
ProductsFit(r) ==
    /\ r >= 0
    /\ r = 0 \/ r <= LONG_MAX \div r
    /\ r * r <= LONG_MAX \div 11
    /\ r <= LONG_MAX \div 957

\* C19: every speed interval the handler records gives, in the cycle that
\* decodes it, a rotation rate of at most 9999, every product of the
\* calibration of that rate fits a signed 32-bit long, and so does the
\* resulting cmps.
CalibrationNeverOverflows ==
    [][(DecodeStep /\ branch' # "stalled") =>
         /\ rps' <= MaxRate /\ MaxRate = 9999
         /\ ProductsFit(rps')
         /\ cmps' \in 0..LONG_MAX]_vars

=============================================================================
